---- MODULE Spec2Model ----
(***************************************************************************)
(* SmartSheetConnect: the lead-submission endpoint, the spreadsheet        *)
(* provisioning and append workflow behind it, and the two best-effort     *)
(* notifications.  Every remote call (token exchange, spreadsheets.get,    *)
(* files.list, spreadsheets.create, values.update, values.append, Gmail    *)
(* send, webhook POST, .env read and write) is one action: the answer of   *)
(* the backend together with the handler code that runs up to the next     *)
(* await.                                                                  *)
(***************************************************************************)
EXTENDS Integers, Sequences, FiniteSets, TLC

\* Every record field of this module, in the one order in which all records
\* list their fields.
FieldNames ==
    [GOOGLE_CLIENT_ID |-> "GOOGLE_CLIENT_ID", GOOGLE_CLIENT_SECRET |-> "GOOGLE_CLIENT_SECRET", GOOGLE_REFRESH_TOKEN |-> "GOOGLE_REFRESH_TOKEN",
     NODE_ENV |-> "NODE_ENV", SLACK_WEBHOOK_URL |-> "SLACK_WEBHOOK_URL", SPREADSHEET_ID |-> "SPREADSHEET_ID",
     _honeypot |-> "_honeypot", absent |-> "absent", body |-> "body",
     cache |-> "cache", clicked |-> "clicked", create |-> "create",
     current |-> "current", drive |-> "drive", em |-> "em",
     email |-> "email", env |-> "env", envFile |-> "envFile",
     errlog |-> "errlog", failing |-> "failing", get |-> "get",
     header |-> "header", hp |-> "hp", id |-> "id",
     isSuccess |-> "isSuccess", kind |-> "kind", leads |-> "leads",
     len |-> "len", lines |-> "lines", made |-> "made",
     message |-> "message", method |-> "method", mode |-> "mode",
     mutation |-> "mutation", name |-> "name", nl |-> "nl",
     ok |-> "ok", ops |-> "ops", pc |-> "pc",
     phone |-> "phone", post |-> "post", pre |-> "pre",
     raised |-> "raised", recent |-> "recent", requestId |-> "requestId",
     resp |-> "resp", ret |-> "ret", rid |-> "rid",
     row |-> "row", rowNumber |-> "rowNumber", search |-> "search",
     seen |-> "seen", sent |-> "sent", shaped |-> "shaped",
     sid |-> "sid", sl |-> "sl", st |-> "st",
     stats |-> "stats", status |-> "status", success |-> "success",
     timers |-> "timers", titled |-> "titled", tokB |-> "tokB",
     tokC |-> "tokC", unset |-> "unset", upper |-> "upper"]

\* ------------------------------------------------------------------ bounds
MaxReqs == 2          \* request slots that may be in flight together
MaxSubmissions == 3   \* requests received over a whole behaviour
MaxRuns == 2          \* process runs (one start plus restarts)
MaxClicks == 2        \* presses of the submit button not yet validated

Reqs == 1..MaxReqs
\* a field that the JSON body does not carry
Absent == [absent |-> TRUE]

\* ------------------------------------------------- shared/schema constants
NameMax == 100
EmailMax == 255
MessageMax == 1000

\* A text value keeps what the schema looks at: the number of leading and
\* trailing whitespace characters and the length of what lies between them
\* (which starts and ends with a non-whitespace character when not empty).
Text(pre, body, post) == [body |-> body, post |-> post, pre |-> pre]
TextLen(t) == t.pre + t.body + t.post
\* String.prototype.trim
Trim(t) == Text(0, t.body, 0)

\* An e-mail value: surrounding whitespace, total length, whether the part
\* between the whitespace has the shape local@domain.tld, and whether it
\* holds an upper-case letter.
Mail(pre, len, post, shaped, upper) ==
    [len |-> len, post |-> post, pre |-> pre, shaped |-> shaped, upper |-> upper]
\* zod's e-mail pattern is anchored at both ends and admits no whitespace
EmailRegexTest(m) == m.shaped /\ m.pre = 0 /\ m.post = 0
\* String.prototype.toLowerCase followed by trim
LowerTrim(m) == Mail(0, m.len - m.pre - m.post, 0, m.shaped, FALSE)

\* A phone value: "" or a string that, once its whitespace is removed,
\* matches phoneRegex or does not.
PhoneEmpty == [phone |-> "empty"]
PhoneGood == [phone |-> "good"]
PhoneBad == [phone |-> "bad"]
PhoneRegexTest(p) == p = PhoneGood

RECURSIVE Join(_, _)
\* Array.prototype.join
Join(msgs, sep) ==
    IF Len(msgs) = 0 THEN ""
    ELSE IF Len(msgs) = 1 THEN msgs[1]
    ELSE msgs[1] \o sep \o Join(Tail(msgs), sep)

NameIssues(v) ==
    IF v = Absent THEN <<"Required">>
    ELSE (IF TextLen(v) < 1 THEN <<"Name is required">> ELSE <<>>)
         \o (IF TextLen(v) > NameMax THEN <<"Name is too long">> ELSE <<>>)

EmailIssues(v) ==
    IF v = Absent THEN <<"Required">>
    ELSE (IF ~EmailRegexTest(v) THEN <<"Please enter a valid email address">> ELSE <<>>)
         \o (IF v.len > EmailMax THEN <<"Email is too long">> ELSE <<>>)

PhoneIssues(v) ==
    IF v = Absent \/ v = PhoneEmpty \/ PhoneRegexTest(v) THEN <<>>
    ELSE <<"Please enter a valid phone number">>

MessageIssues(v) ==
    IF v = Absent THEN <<"Required">>
    ELSE (IF TextLen(v) < 1 THEN <<"Message is required">> ELSE <<>>)
         \o (IF TextLen(v) > MessageMax THEN <<"Message is too long">> ELSE <<>>)

\* leadSubmissionSchema.parse: the issues in field order, and the parsed
\* record (unknown keys stripped, strings transformed) when there is none
SchemaIssues(b) ==
    NameIssues(b.name) \o EmailIssues(b.email) \o PhoneIssues(b.phone)
        \o MessageIssues(b.message)

SchemaParse(b) ==
    [email |-> LowerTrim(b.email), message |-> Trim(b.message),
     name |-> Trim(b.name), phone |-> b.phone]

\* ------------------------------------------------------------ request body
HpEmpty == [hp |-> "empty"]      \* _honeypot: ""
HpFilled == [hp |-> "filled"]    \* _honeypot: a non-empty string
Body(name, email, phone, message, hp) ==
    [_honeypot |-> hp, email |-> email, message |-> message, name |-> name,
     phone |-> phone]
\* req.body._honeypot && req.body._honeypot !== ""
HoneypotFilled(b) == b._honeypot # Absent /\ b._honeypot # HpEmpty

GoodName == Text(0, 4, 0)
GoodMail == Mail(0, 16, 0, TRUE, FALSE)
GoodMessage == Text(0, 12, 0)
GoodBody == Body(GoodName, GoodMail, Absent, GoodMessage, Absent)

\* ------------------------------------------------------------- process.env
NoId == 0
CredVars == <<"GOOGLE_CLIENT_ID", "GOOGLE_CLIENT_SECRET", "GOOGLE_REFRESH_TOKEN">>
ProcessEnv(cid, secret, refresh, sheetId, nodeEnv, hook) ==
    [GOOGLE_CLIENT_ID |-> cid, GOOGLE_CLIENT_SECRET |-> secret,
     GOOGLE_REFRESH_TOKEN |-> refresh, NODE_ENV |-> nodeEnv,
     SLACK_WEBHOOK_URL |-> hook, SPREADSHEET_ID |-> sheetId]
\* a variable is "unset", "blank" (only whitespace) or "set"
CredsMissingUnsetOnly(env) == \E i \in 1..3 : env[CredVars[i]] = "unset"
\* !clientId?.trim() || !clientSecret?.trim() || !refreshToken?.trim()
CredsMissing(env) == \E i \in 1..3 : env[CredVars[i]] # "set"
MissingVars(env) == SelectSeq(CredVars, LAMBDA n : env[n] # "set")
\* clientId && clientSecret && refreshToken
GmailCredsPresent(env) == \A i \in 1..3 : env[CredVars[i]] # "unset"

\* ---------------------------------------------------------- error messages
CredentialError(env) ==
    "Google Sheets authentication not configured. Missing or empty variables: "
        \o Join(MissingVars(env), ", ")
        \o ". Please set GOOGLE_CLIENT_ID, GOOGLE_CLIENT_SECRET, and GOOGLE_REFRESH_TOKEN environment variables in your .env file."
TokenError(cause) ==
    "Failed to refresh Google OAuth2 access token: " \o cause
        \o ". Please verify your GOOGLE_CLIENT_ID, GOOGLE_CLIENT_SECRET, and GOOGLE_REFRESH_TOKEN are correct."
CreateError(cause) == "Failed to create spreadsheet: " \o cause
AppendError(msg) == "Failed to append lead to sheet: " \o msg
SubmitError(msg) == "Failed to submit lead: " \o msg
\* what the backends say when they refuse
TokenCause == "invalid_grant"
CreateCause == "The caller does not have permission"
HeaderCause == "Unable to parse range: Leads!A1:E1"
AppendCause == "Quota exceeded"

\* ---------------------------------------------------------- HTTP responses
NoResp == [status |-> 0]
SuccessMessage == "Lead submitted successfully"
GenericMessage == "Failed to submit lead. Please try again later."
SpamResponse == [message |-> SuccessMessage, status |-> 200, success |-> TRUE]
SuccessResponse(rowNumber) ==
    [message |-> SuccessMessage, rowNumber |-> rowNumber, status |-> 200,
     success |-> TRUE]
\* express-request-id: app.use(requestId()) gives every request an id of its
\* own; n is the number of the request among those received
ReqId(n) == "req-" \o ToString(n)
NoReqId == ""                                    \* req.id of no request
\* const requestId = req.id || "unknown"
RequestId(id) == IF id = NoReqId THEN "unknown" ELSE id
\* requestId is part of the body only when NODE_ENV is "development"
WithRequestId(env, id, r) ==
    IF env.NODE_ENV = "development"
    THEN [message |-> r.message, requestId |-> RequestId(id), status |-> r.status,
          success |-> r.success]
    ELSE r
ValidationMessageFirst(issues) == "Validation error: " \o issues[1]
ValidationMessage(issues) == "Validation error: " \o Join(issues, ", ")
ValidationResponse(env, id, issues) ==
    WithRequestId(env, id, [message |-> ValidationMessage(issues), status |-> 400,
                            success |-> FALSE])
SafeMessageVerbatim(env, errorMessage) == errorMessage
\* process.env.NODE_ENV === "production" ? generic : errorMessage
SafeMessage(env, errorMessage) ==
    IF env.NODE_ENV = "production" THEN GenericMessage ELSE errorMessage
ErrorResponse(env, id, errorMessage) ==
    WithRequestId(env, id, [message |-> SafeMessage(env, errorMessage),
                            status |-> 500, success |-> FALSE])

\* ------------------------------------------------------ spreadsheet backend
\* A spreadsheet: whether it carries the organization's title, whether row 1
\* holds the header, how many lead rows were appended, and whether this
\* system created it.  Its id is its position in drive.
Sheet(titled, header, leads, made) ==
    [header |-> header, leads |-> leads, made |-> made, titled |-> titled]
SheetExists(d, id) == id \in 1..Len(d)
DanglingId == 9       \* an id no spreadsheet has

\* ------------------------------------------------------------ the .env file
\* mode: "missing", "rw" or "ro" (readable, not writable); lines: their kinds
OtherLine == [kind |-> "other"]                  \* KEY=value of another variable
CommentLine == [kind |-> "comment"]              \* # SPREADSHEET_ID=... (commented out)
NoteLine == [kind |-> "note"]                    \* # Automatically added: ...
IdLine(id) == [id |-> id, kind |-> "id"]         \* SPREADSHEET_ID=<id>
EnvFile(mode, lines, nl) == [lines |-> lines, mode |-> mode, nl |-> nl]
NoFile == EnvFile("missing", <<>>, TRUE)
\* envContent.includes('SPREADSHEET_ID=')
IncludesId(lines) == \E i \in 1..Len(lines) : lines[i].kind \in {"id", "comment"}
\* dotenv: the value of the last SPREADSHEET_ID assignment, if any
DotenvId(f) ==
    IF f.mode = "missing" \/ ~\E i \in 1..Len(f.lines) : f.lines[i].kind = "id"
    THEN NoId
    ELSE f.lines[CHOOSE i \in 1..Len(f.lines) :
                    /\ f.lines[i].kind = "id"
                    /\ \A j \in (i+1)..Len(f.lines) : f.lines[j].kind # "id"].id
\* dotenv.config never replaces a variable the process already has
LoadEnv(env, f) ==
    IF env.SPREADSHEET_ID # NoId THEN env
    ELSE [env EXCEPT !.SPREADSHEET_ID = DotenvId(f)]

\* ------------------------------------------------------------------- state
VARIABLES
    penv,                  \* process.env of the running process
    cachedSpreadsheetId,   \* the module-level cache of googleSheets
    drive,                 \* the spreadsheets of the account, by id
    recent,                \* the titled spreadsheet modified last (NoId: none)
    envFile,               \* <projectRoot>/.env of googleSheets: <root>/server/.env
    run,                   \* number of the current process run
    arrivals,              \* requests received so far
    stats,                 \* calls made by createOrGetSpreadsheet in this run
    pc,                    \* per request: the await it is suspended at
    body,                  \* per request: the JSON body received
    sid,                   \* per request: spreadsheetId local
    seen,                  \* per request: envContent read by saveSpreadsheetIdToEnv
    em,                    \* per request: the sendEmailNotification promise
    sl,                    \* per request: the sendSlackNotification promise
    ops,                   \* per request: the calls made for it, in order
    row,                   \* per request: rowNumber of the append result
    errlog,                \* per request: the error text given to console.error
    resp,                  \* per request: the HTTP response sent
    rid,                   \* per request: req.id
    twin,                  \* two createOrGetSpreadsheet calls run side by side
    form                   \* the DemoFormSection instance in the browser

vars == <<penv, cachedSpreadsheetId, drive, recent, envFile, run, arrivals,
          stats, pc, body, sid, seen, em, sl, ops, row, errlog, resp, rid, twin,
          form>>

NoStats == [create |-> 0, header |-> 0, raised |-> 0, ret |-> {}, search |-> 0]
NoPromise == [method |-> "", st |-> "none", success |-> FALSE]
Settled(success, method) == [method |-> method, st |-> "done", success |-> success]
\* a request on its way to the server ("wire") has no handler yet
InFlight(p) == p \notin {"idle", "done", "wire"}

\* One request's view of the state: the shared state and its own locals.
View(r) ==
    [body |-> body[r], cache |-> cachedSpreadsheetId, drive |-> drive,
     em |-> em[r], env |-> penv, envFile |-> envFile, errlog |-> errlog[r],
     ops |-> ops[r], pc |-> pc[r], recent |-> recent, resp |-> resp[r],
     rid |-> rid[r], row |-> row[r], seen |-> seen[r], sid |-> sid[r], sl |-> sl[r],
     stats |-> stats]

Install(r, v) ==
    /\ cachedSpreadsheetId' = v.cache
    /\ drive' = v.drive
    /\ recent' = v.recent
    /\ envFile' = v.envFile
    /\ stats' = v.stats
    /\ pc' = [pc EXCEPT ![r] = v.pc]
    /\ body' = [body EXCEPT ![r] = v.body]
    /\ sid' = [sid EXCEPT ![r] = v.sid]
    /\ seen' = [seen EXCEPT ![r] = v.seen]
    /\ em' = [em EXCEPT ![r] = v.em]
    /\ sl' = [sl EXCEPT ![r] = v.sl]
    /\ ops' = [ops EXCEPT ![r] = v.ops]
    /\ row' = [row EXCEPT ![r] = v.row]
    /\ errlog' = [errlog EXCEPT ![r] = v.errlog]
    /\ rid' = [rid EXCEPT ![r] = v.rid]
    /\ resp' = [resp EXCEPT ![r] = v.resp]
    /\ UNCHANGED <<penv, run, twin>>

Did(v, op) == [v EXCEPT !.ops = Append(@, op)]
\* a remote call and how the backend answered it
Remote(v, call, ok) == Did(v, IF ok THEN call ELSE call \o ":fail")
Called(o, op) == \E i \in 1..Len(o) : o[i] = op
\* the call was made, whatever the answer
Tried(o, call) == Called(o, call) \/ Called(o, call \o ":fail")

\* ------------------------------------------- routes: POST /api/submit-lead
Reply(v, response) == [v EXCEPT !.resp = response, !.pc = "done"]

\* the catch block of the route: log, then 400 for a ZodError, 500 otherwise
RouteCatchZod(v, issues) ==
    Reply([v EXCEPT !.errlog = "ZodError"], ValidationResponse(v.env, v.rid, issues))
RouteCatch(v, errorMessage) ==
    Reply([v EXCEPT !.errlog = errorMessage], ErrorResponse(v.env, v.rid, errorMessage))

ScreenSchemaFirst(b) ==
    IF SchemaIssues(b) # <<>> THEN "invalid"
    ELSE IF HoneypotFilled(b) THEN "spam"
    ELSE "valid"
\* the order of the two checks at the head of the handler
Screen(b) ==
    IF HoneypotFilled(b) THEN "spam"
    ELSE IF SchemaIssues(b) # <<>> THEN "invalid"
    ELSE "valid"

\* ------------------------------------------------- storage: submitLead
RaiseInAppendNotifying(v, msg) ==
    RouteCatch(Did(Did(Did(v, "sendEmailNotification"), "sendSlackNotification"),
                   "appendLeadToSheet:throw"),
               SubmitError(AppendError(msg)))
\* an error thrown inside the try of appendLeadToSheet: wrapped there, wrapped
\* again by the catch of submitLead, and handed to the route
RaiseInAppend(v, msg) ==
    RouteCatch(Did(v, "appendLeadToSheet:throw"), SubmitError(AppendError(msg)))

SubmitLeadResultStrict(rowNumber, email, slack) ==
    [ok |-> email.success /\ slack.success, rowNumber |-> rowNumber]
\* what submitLead hands back once Promise.allSettled has resolved
SubmitLeadResult(rowNumber, email, slack) == [ok |-> TRUE, rowNumber |-> rowNumber]

AllSettledNeverResolves(v) == [v EXCEPT !.pc = "notify"]
\* await Promise.allSettled([...]); return result
AllSettled(v) ==
    IF v.em.st = "done" /\ v.sl.st = "done"
    THEN LET res == SubmitLeadResult(v.row, v.em, v.sl)
         IN  IF res.ok THEN Reply(v, SuccessResponse(res.rowNumber))
             ELSE RouteCatch(v, SubmitError("notification failed"))
    ELSE [v EXCEPT !.pc = "notify"]

\* the two notification calls, each run up to its first await
SendEmailNotification(v) ==
    [Did(v, "sendEmailNotification") EXCEPT
        !.em = IF GmailCredsPresent(v.env) THEN [NoPromise EXCEPT !.st = "token"]
               ELSE Settled(TRUE, "console-only")]
SendSlackNotification(v) ==
    [Did(v, "sendSlackNotification") EXCEPT
        !.sl = IF v.env.SLACK_WEBHOOK_URL THEN [NoPromise EXCEPT !.st = "post"]
               ELSE Settled(TRUE, "console-only")]
Notify(v) == AllSettled(SendSlackNotification(SendEmailNotification(v)))

\* ----------------------------------------------------------- googleSheets
\* getAccessToken up to its await: throws when a credential is missing
\* (onMissing), otherwise suspends at the token exchange (next)
GetAccessToken(v, next, onMissing) ==
    IF CredsMissing(v.env) THEN onMissing ELSE [v EXCEPT !.pc = next]

\* createOrGetSpreadsheet throws: the error passes through appendLeadToSheet
CogsRaise(v, msg) == RaiseInAppend([v EXCEPT !.stats.raised = @ + 1], msg)
\* createOrGetSpreadsheet returns id: appendLeadToSheet goes on to the append
CogsReturn(v, id) ==
    [v EXCEPT !.sid = id, !.pc = "append", !.stats.ret = @ \cup {id}]

\* findExistingSpreadsheet up to its first await; a throw in it yields null
FindExisting(v) ==
    GetAccessToken(v, "tokC", [v EXCEPT !.pc = "create"])

AfterVerifyIgnored(v, found) == FindExisting(v)
AfterVerifyStrict(v, found) ==
    IF found
    THEN CogsReturn([v EXCEPT !.cache = v.env.SPREADSHEET_ID], v.env.SPREADSHEET_ID)
    ELSE CogsRaise(v, "SPREADSHEET_ID in environment is invalid")
\* where the override verification leads
AfterVerify(v, found) ==
    IF found
    THEN CogsReturn([v EXCEPT !.cache = v.env.SPREADSHEET_ID], v.env.SPREADSHEET_ID)
    ELSE FindExisting(v)

CacheCheckSkipped(v) ==
    IF v.env.SPREADSHEET_ID # NoId THEN [v EXCEPT !.pc = "verify"]
    ELSE FindExisting(v)
\* the code of createOrGetSpreadsheet between the client and the first call
CacheCheck(v) ==
    IF v.cache # NoId THEN CogsReturn(v, v.cache)
    ELSE IF v.env.SPREADSHEET_ID # NoId THEN [v EXCEPT !.pc = "verify"]
    ELSE FindExisting(v)

\* handler entry: honeypot, schema, submitLead, appendLeadToSheet, first client
Enter(v, b) ==
    LET v0 == [v EXCEPT !.body = b, !.sid = NoId, !.seen = NoFile,
                        !.em = NoPromise, !.sl = NoPromise, !.ops = <<>>,
                        !.row = 0, !.errlog = "", !.resp = NoResp]
    IN  CASE Screen(b) = "spam" -> Reply(v0, SpamResponse)
          [] Screen(b) = "invalid" -> RouteCatchZod(v0, SchemaIssues(b))
          [] OTHER ->
               LET v1 == Did(v0, "submitLead")
               IN  GetAccessToken(v1, "tokA", RaiseInAppend(v1, CredentialError(v.env)))

\* token exchange for the client of appendLeadToSheet answered
TokenA(v, ok) ==
    LET v1 == Remote(v, "token", ok)
    IN  IF ok
        THEN GetAccessToken(v1, "tokB", CogsRaise(v1, CredentialError(v.env)))
        ELSE RaiseInAppend(v1, TokenError(TokenCause))

\* token exchange for the client of createOrGetSpreadsheet answered
TokenB(v, ok) ==
    LET v1 == Remote(v, "token", ok)
    IN  IF ok THEN CacheCheck(v1) ELSE CogsRaise(v1, TokenError(TokenCause))

\* spreadsheets.get for process.env.SPREADSHEET_ID answered
Verify(v, ok) ==
    LET found == ok /\ SheetExists(v.drive, v.env.SPREADSHEET_ID)
    IN  AfterVerify(Remote(v, "get", found), found)

TokenCRaising(v, ok) ==
    IF ok THEN [Remote(v, "token", ok) EXCEPT !.pc = "search"]
    ELSE CogsRaise(Remote(v, "token", ok), TokenError(TokenCause))
\* token exchange inside findExistingSpreadsheet answered
TokenC(v, ok) ==
    [Remote(v, "token", ok) EXCEPT !.pc = IF ok THEN "search" ELSE "create"]

SearchRewritingHeader(v, ok) ==
    LET v1 == [Remote(v, "search", ok) EXCEPT !.stats.search = @ + 1]
        existingId == IF ok THEN v.recent ELSE NoId
    IN  IF existingId # NoId
        THEN [v1 EXCEPT !.sid = existingId, !.pc = "header"]
        ELSE [v1 EXCEPT !.pc = "create"]
\* drive.files.list answered: the titled spreadsheet modified last, or none;
\* a failed search counts as none
Search(v, ok) ==
    LET v1 == [Remote(v, "search", ok) EXCEPT !.stats.search = @ + 1]
        existingId == IF ok THEN v.recent ELSE NoId
    IN  IF existingId # NoId
        THEN CogsReturn([v1 EXCEPT !.cache = existingId], existingId)
        ELSE [v1 EXCEPT !.pc = "create"]

CreateHeaderless(v, ok) ==
    LET v1 == [Remote(v, "create", ok) EXCEPT !.stats.create = @ + 1]
        id == Len(v.drive) + 1
    IN  IF ok
        THEN [v1 EXCEPT !.drive = Append(@, Sheet(TRUE, FALSE, 0, TRUE)),
                        !.recent = id, !.sid = id, !.cache = id, !.pc = "envRead"]
        ELSE CogsRaise(v1, CreateError(CreateCause))
CreateCachingEarly(v, ok) ==
    LET v1 == [Remote(v, "create", ok) EXCEPT !.stats.create = @ + 1]
        id == Len(v.drive) + 1
    IN  IF ok
        THEN [v1 EXCEPT !.drive = Append(@, Sheet(TRUE, FALSE, 0, TRUE)),
                        !.recent = id, !.sid = id, !.cache = id, !.pc = "header"]
        ELSE CogsRaise(v1, CreateError(CreateCause))
\* spreadsheets.create answered
Create(v, ok) ==
    LET v1 == [Remote(v, "create", ok) EXCEPT !.stats.create = @ + 1]
        id == Len(v.drive) + 1
    IN  IF ok
        THEN [v1 EXCEPT !.drive = Append(@, Sheet(TRUE, FALSE, 0, TRUE)),
                        !.recent = id, !.sid = id, !.pc = "header"]
        ELSE CogsRaise(v1, CreateError(CreateCause))

\* values.update of Leads!A1:E1 answered
Header(v, ok) ==
    LET v1 == [Remote(v, "header", ok) EXCEPT !.stats.header = @ + 1]
    IN  IF ok
        THEN [v1 EXCEPT !.drive[v.sid].header = TRUE, !.recent = v.sid,
                        !.cache = v.sid, !.pc = "envRead"]
        ELSE CogsRaise(v1, CreateError(HeaderCause))

EnvReadIgnoringEntry(v) ==
    LET v1 == Did(v, "readFile")
    IN  IF v.envFile.mode = "missing"
        THEN CogsReturn(v1, v.sid)
        ELSE [v1 EXCEPT !.seen = v.envFile, !.pc = "envWrite"]
\* saveSpreadsheetIdToEnv: fs.readFile answered
EnvRead(v) ==
    LET v1 == Did(v, "readFile")
    IN  IF v.envFile.mode = "missing" \/ IncludesId(v.envFile.lines)
        THEN CogsReturn(v1, v.sid)
        ELSE [v1 EXCEPT !.seen = v.envFile, !.pc = "envWrite"]

\* the new content: what was read, a newline if it did not end with one,
\* the comment line and the assignment
NewContent(f, id) ==
    [f EXCEPT !.lines = @ \o <<NoteLine, IdLine(id)>>, !.nl = TRUE]

EnvWriteRaising(v) ==
    LET v1 == Did(v, "writeFile")
    IN  IF v.envFile.mode = "rw"
        THEN CogsReturn([v1 EXCEPT !.envFile = NewContent(v.seen, v.sid)], v.sid)
        ELSE CogsRaise([v1 EXCEPT !.cache = NoId], CreateError("EACCES: permission denied"))
\* saveSpreadsheetIdToEnv: fs.writeFile answered; a failure is only logged
EnvWrite(v) ==
    LET v1 == Did(v, "writeFile")
    IN  IF v.envFile.mode = "rw"
        THEN CogsReturn([v1 EXCEPT !.envFile = NewContent(v.seen, v.sid)], v.sid)
        ELSE CogsReturn(v1, v.sid)

AppendRowRetrying(v, ok) ==
    LET v1 == IF ok THEN v ELSE Remote(v, "append", FALSE)
        v2 == Remote(v1, "append", SheetExists(v.drive, v.sid))
    IN  IF SheetExists(v.drive, v.sid)
        THEN Notify([v2 EXCEPT !.drive[v.sid].leads = @ + 1,
                               !.recent = IF v.drive[v.sid].titled THEN v.sid ELSE @,
                               !.row = 1])
        ELSE RaiseInAppend(v2, AppendCause)
\* values.append answered: updatedRows of a one-row append is 1
UpdatedRows == 1
AppendRow(v, ok) ==
    LET done == ok /\ SheetExists(v.drive, v.sid)
        v1 == Remote(v, "append", done)
    IN  IF done
        THEN Notify([v1 EXCEPT !.drive[v.sid].leads = @ + 1,
                               !.recent = IF v.drive[v.sid].titled THEN v.sid ELSE @,
                               !.row = UpdatedRows])
        ELSE RaiseInAppend(v1, AppendCause)

\* email: token exchange of getGmailAccessToken answered; null makes the
\* send step throw, which the catch turns into a console-only success
GmailToken(v, ok) ==
    AllSettled([Remote(v, "gmail-token", ok) EXCEPT
        !.em = IF ok THEN [NoPromise EXCEPT !.st = "send"]
               ELSE Settled(TRUE, "console-only")])

\* email: users.messages.send answered
GmailSend(v, ok) ==
    AllSettled([Remote(v, "gmail-send", ok) EXCEPT
        !.em = IF ok THEN Settled(TRUE, "gmail") ELSE Settled(TRUE, "console-only")])

SlackResultSuccessAlways(ok) == Settled(TRUE, IF ok THEN "webhook" ELSE "console-only")
\* slack: the webhook POST answered (ok: a 2xx status)
SlackResult(ok) == IF ok THEN Settled(TRUE, "webhook") ELSE Settled(FALSE, "webhook")
Webhook(v, ok) ==
    AllSettled([Remote(v, "webhook", ok) EXCEPT !.sl = SlackResult(ok)])

\* one whole call of createOrGetSpreadsheet, no other request in between;
\* answers tells how each remote call is answered
CogsPcs == {"tokB", "verify", "tokC", "search", "create", "header", "envRead", "envWrite"}
StepCogs(v, answers) ==
    CASE v.pc = "tokB" -> TokenB(v, answers.tokB)
      [] v.pc = "verify" -> Verify(v, answers.get)
      [] v.pc = "tokC" -> TokenC(v, answers.tokC)
      [] v.pc = "search" -> Search(v, answers.search)
      [] v.pc = "create" -> Create(v, answers.create)
      [] v.pc = "header" -> Header(v, answers.header)
      [] v.pc = "envRead" -> EnvRead(v)
      [] v.pc = "envWrite" -> EnvWrite(v)
RECURSIVE RunCogs(_, _)
RunCogs(v, answers) ==
    IF v.pc \in CogsPcs THEN RunCogs(StepCogs(v, answers), answers) ELSE v

\* ---------------------------------------------------------------- actions
Idle(r) == ~InFlight(pc[r])

\* a request arrives and runs up to its first await; sequential: the process
\* is given one submission at a time
Receive(r, bodies, sequential) ==
    /\ Idle(r)
    /\ sequential => \A q \in Reqs : Idle(q)
    /\ arrivals < MaxSubmissions
    /\ arrivals' = arrivals + 1
    /\ \E i \in 1..Len(bodies) :
          Install(r, Enter([View(r) EXCEPT !.rid = ReqId(arrivals + 1)], bodies[i]))
    /\ UNCHANGED form

ExchangeA(r, ok) == pc[r] = "tokA" /\ Install(r, TokenA(View(r), ok)) /\ UNCHANGED <<arrivals, form>>
ExchangeB(r, ok) == pc[r] = "tokB" /\ Install(r, TokenB(View(r), ok)) /\ UNCHANGED <<arrivals, form>>
VerifyOverride(r, ok) == pc[r] = "verify" /\ Install(r, Verify(View(r), ok)) /\ UNCHANGED <<arrivals, form>>
ExchangeC(r, ok) == pc[r] = "tokC" /\ Install(r, TokenC(View(r), ok)) /\ UNCHANGED <<arrivals, form>>
SearchDrive(r, ok) == pc[r] = "search" /\ Install(r, Search(View(r), ok)) /\ UNCHANGED <<arrivals, form>>
CreateSheet(r, ok) == pc[r] = "create" /\ Install(r, Create(View(r), ok)) /\ UNCHANGED <<arrivals, form>>
WriteHeader(r, ok) == pc[r] = "header" /\ Install(r, Header(View(r), ok)) /\ UNCHANGED <<arrivals, form>>
ReadEnv(r) == pc[r] = "envRead" /\ Install(r, EnvRead(View(r))) /\ UNCHANGED <<arrivals, form>>
WriteEnv(r) == pc[r] = "envWrite" /\ Install(r, EnvWrite(View(r))) /\ UNCHANGED <<arrivals, form>>
AppendLead(r, ok) == pc[r] = "append" /\ Install(r, AppendRow(View(r), ok)) /\ UNCHANGED <<arrivals, form>>
EmailToken(r, ok) ==
    /\ pc[r] = "notify" /\ em[r].st = "token"
    /\ Install(r, GmailToken(View(r), ok)) /\ UNCHANGED <<arrivals, form>>
EmailSend(r, ok) ==
    /\ pc[r] = "notify" /\ em[r].st = "send"
    /\ Install(r, GmailSend(View(r), ok)) /\ UNCHANGED <<arrivals, form>>
SlackPost(r, ok) ==
    /\ pc[r] = "notify" /\ sl[r].st = "post"
    /\ Install(r, Webhook(View(r), ok)) /\ UNCHANGED <<arrivals, form>>

\* ------------------------------------------------ client: DemoFormSection
\* disabled={mutation.isPending}
ButtonDisabled(f) == f.mutation = "pending"
\* the submit button is on the page only while the form is rendered
ButtonShown(f) == ~f.isSuccess
\* JSON.stringify of the values the resolver returned; the honeypot input is
\* not a field of the form
JsonBody(d) == Body(d.name, d.email, d.phone, d.message, Absent)
\* mutation.mutate: the observer follows the new mutation, which is pending,
\* and the request for slot r leaves the browser
Mutate(f, r) ==
    [f EXCEPT !.mutation = "pending", !.current = r, !.sent = @ \cup {r}]
\* a mutation settles: its onSuccess runs for a 2xx answer; the state the
\* component renders changes only when it is the mutation the observer follows
OnSuccess(f, r) ==
    [f EXCEPT !.isSuccess = TRUE, !.timers = @ + 1,
              !.mutation = IF f.current = r THEN "success" ELSE @]
OnError(f, r) == [f EXCEPT !.mutation = IF f.current = r THEN "error" ELSE @]
Settled2xx(response) == response.status \in 200..299

\* the user presses the submit button as rendered: form.handleSubmit starts
\* and awaits the resolver.  The button is rendered disabled only after
\* mutate; a press made before that render finds it enabled like the first.
ClickSubmit ==
    /\ ButtonShown(form) /\ ~ButtonDisabled(form)
    /\ form.clicked < MaxClicks
    /\ arrivals + Cardinality({r \in Reqs : pc[r] = "wire"}) + form.clicked < MaxSubmissions
    /\ form' = [form EXCEPT !.clicked = @ + 1]
    /\ UNCHANGED <<penv, cachedSpreadsheetId, drive, recent, envFile, run, arrivals,
                   stats, pc, body, sid, seen, em, sl, ops, row, errlog, resp, rid, twin>>
\* the resolver has answered for one press: values that fail the schema give
\* field errors and nothing else; values that pass are handed to onSubmit,
\* which calls mutation.mutate, and mutationFn makes the request
HandleSubmit(r, inputs) ==
    /\ form.clicked > 0
    /\ \E i \in 1..Len(inputs) :
          IF SchemaIssues(inputs[i]) = <<>>
          THEN /\ Idle(r) /\ r \notin form.sent
               /\ form' = Mutate([form EXCEPT !.clicked = @ - 1], r)
               /\ pc' = [pc EXCEPT ![r] = "wire"]
               /\ body' = [body EXCEPT ![r] = JsonBody(SchemaParse(inputs[i]))]
          ELSE /\ form' = [form EXCEPT !.clicked = @ - 1]
               /\ UNCHANGED <<pc, body>>
    /\ UNCHANGED <<penv, cachedSpreadsheetId, drive, recent, envFile, run, arrivals,
                   stats, sid, seen, em, sl, ops, row, errlog, resp, rid, twin>>
\* the request reaches the server and its handler starts
Arrive(r) ==
    /\ pc[r] = "wire"
    /\ Receive(r, <<body[r]>>, FALSE)

\* the answer of the server reaches mutationFn
Settle(r) ==
    /\ r \in form.sent /\ pc[r] = "done"
    /\ form' = LET f == [form EXCEPT !.sent = @ \ {r}]
               IN  IF Settled2xx(resp[r]) THEN OnSuccess(f, r) ELSE OnError(f, r)
    /\ UNCHANGED <<penv, cachedSpreadsheetId, drive, recent, envFile, run, arrivals,
                   stats, pc, body, sid, seen, em, sl, ops, row, errlog, resp, rid, twin>>
\* fetch rejects, at any moment after the request was made: a request that
\* has not reached the server is lost or arrives all the same, one the
\* server is handling is handled to its end
NetworkError(r) ==
    /\ r \in form.sent
    /\ form' = OnError([form EXCEPT !.sent = @ \ {r}], r)
    /\ \E lost \in BOOLEAN :
          pc' = IF lost /\ pc[r] = "wire" THEN [pc EXCEPT ![r] = "idle"] ELSE pc
    /\ UNCHANGED <<penv, cachedSpreadsheetId, drive, recent, envFile, run, arrivals,
                   stats, body, sid, seen, em, sl, ops, row, errlog, resp, rid, twin>>
\* setTimeout(() => setIsSuccess(false), 5000) fires
TimerFires ==
    /\ form.timers > 0
    /\ form' = [form EXCEPT !.isSuccess = FALSE, !.timers = @ - 1]
    /\ UNCHANGED <<penv, cachedSpreadsheetId, drive, recent, envFile, run, arrivals,
                   stats, pc, body, sid, seen, em, sl, ops, row, errlog, resp, rid, twin>>
\* the "Send Another Message" button of the success card
SubmitAnother ==
    /\ form.isSuccess
    /\ form' = [form EXCEPT !.isSuccess = FALSE]
    /\ UNCHANGED <<penv, cachedSpreadsheetId, drive, recent, envFile, run, arrivals,
                   stats, pc, body, sid, seen, em, sl, ops, row, errlog, resp, rid, twin>>

\* what the end of the process leaves of the locals f of the requests: those
\* of a request still being handled are gone with it
Killed(f, none) == [r \in Reqs |-> IF InFlight(pc[r]) THEN none ELSE f[r]]
\* the process is stopped and started again: module state is lost and the
\* requests being handled end without an answer; the spreadsheets and the
\* files stay.  server/index.ts loads <root>/.env, the directory above its
\* own, while saveSpreadsheetIdToEnv of server/services/googleSheets.ts writes
\* the .env of the directory above its own, <root>/server: the file the new
\* process loads is the one the old process loaded, so process.env comes out
\* as it was.
Restart ==
    /\ run < MaxRuns
    /\ run' = run + 1
    /\ cachedSpreadsheetId' = NoId
    /\ stats' = NoStats
    /\ pc' = Killed(pc, "idle")
    /\ sid' = Killed(sid, NoId)
    /\ seen' = Killed(seen, NoFile)
    /\ em' = Killed(em, NoPromise)
    /\ sl' = Killed(sl, NoPromise)
    /\ ops' = Killed(ops, <<>>)
    /\ row' = Killed(row, 0)
    /\ errlog' = Killed(errlog, "")
    /\ UNCHANGED <<penv, drive, recent, envFile, arrivals, body, resp, rid, twin, form>>

\* every remote call answers, with success or with failure
Backend(r, oks) ==
    \E ok \in oks :
        \/ ExchangeA(r, ok) \/ ExchangeB(r, ok) \/ VerifyOverride(r, ok)
        \/ ExchangeC(r, ok) \/ SearchDrive(r, ok) \/ CreateSheet(r, ok)
        \/ WriteHeader(r, ok) \/ AppendLead(r, ok)
        \/ EmailToken(r, ok) \/ EmailSend(r, ok) \/ SlackPost(r, ok)
Files(r) == ReadEnv(r) \/ WriteEnv(r)

\* ---------------------------------------------------------- initial states
\* the titled spreadsheet modified last: the one with the largest id
RecentOf(d) ==
    IF \E i \in 1..Len(d) : d[i].titled
    THEN CHOOSE i \in 1..Len(d) : d[i].titled /\ \A j \in (i+1)..Len(d) : ~d[j].titled
    ELSE NoId

NoTwin == [failing |-> NoResp, unset |-> NoResp]
\* the form as mounted: useState(false), mutation idle, nothing sent
NoForm ==
    [clicked |-> 0, current |-> 0, isSuccess |-> FALSE, mutation |-> "idle",
     sent |-> {}, timers |-> 0]
InitWith(envs, drives, files) ==
    /\ envFile \in files
    /\ penv \in envs
    /\ drive \in drives
    /\ recent = RecentOf(drive)
    /\ cachedSpreadsheetId = NoId
    /\ run = 1
    /\ arrivals = 0
    /\ stats = NoStats
    /\ pc = [r \in Reqs |-> "idle"]
    /\ body = [r \in Reqs |-> GoodBody]
    /\ sid = [r \in Reqs |-> NoId]
    /\ seen = [r \in Reqs |-> NoFile]
    /\ em = [r \in Reqs |-> NoPromise]
    /\ sl = [r \in Reqs |-> NoPromise]
    /\ ops = [r \in Reqs |-> <<>>]
    /\ row = [r \in Reqs |-> 0]
    /\ errlog = [r \in Reqs |-> ""]
    /\ resp = [r \in Reqs |-> NoResp]
    /\ rid = [r \in Reqs |-> NoReqId]
    /\ twin = NoTwin
    /\ form = NoForm

ForeignSheet == Sheet(FALSE, TRUE, 0, FALSE)   \* a spreadsheet of the user's own
TitledSheet == Sheet(TRUE, TRUE, 0, FALSE)     \* one that already has the title

\* <root>/.env as the operator wrote it, with a SPREADSHEET_ID line or none
RootEnv(sheetId) ==
    EnvFile("rw", IF sheetId = NoId THEN <<OtherLine>>
                  ELSE <<OtherLine, IdLine(sheetId)>>, TRUE)
\* process.env once server/index.ts has loaded <root>/.env
SetEnv(sheetId) ==
    LoadEnv(ProcessEnv("set", "set", "set", NoId, "production", TRUE), RootEnv(sheetId))

\* bodies for the specifications about provisioning
SpamBody == Body(Absent, Absent, PhoneBad, Absent, HpFilled)
BadBody == Body(Text(0, 0, 0), Mail(0, 3, 0, FALSE, FALSE), Absent, GoodMessage, Absent)
Bodies == <<GoodBody, SpamBody, BadBody>>

\* Spec: submissions served one at a time, failing backends, restarts.
\* An override configured by the operator names the operator's own
\* spreadsheet (id 1) or no spreadsheet at all.
EnvFiles == {NoFile, EnvFile("rw", <<OtherLine>>, FALSE)}
DevEnv == ProcessEnv("set", "set", "set", NoId, "development", FALSE)
NoCredsEnv == ProcessEnv("set", "blank", "unset", NoId, "production", TRUE)
Init ==
    \/ InitWith({SetEnv(NoId), SetEnv(DanglingId)}, {<<>>, <<TitledSheet>>}, EnvFiles)
    \/ InitWith({SetEnv(1)}, {<<ForeignSheet>>, <<ForeignSheet, TitledSheet>>}, EnvFiles)
    \/ InitWith({DevEnv, NoCredsEnv}, {<<>>}, {EnvFile("ro", <<OtherLine>>, TRUE)})
Next ==
    \/ Receive(1, Bodies, TRUE)
    \/ Backend(1, BOOLEAN)
    \/ Files(1)
    \/ Restart
Spec == Init /\ [][Next]_vars

\* SpecHttp: one process run, bodies of every shape
LongName == Text(0, NameMax + 1, 0)
LongMessage == Text(0, MessageMax + 1, 0)
LongMail == Mail(0, EmailMax + 1, 0, TRUE, FALSE)
HttpBodies ==
    << GoodBody,
       Body(GoodName, GoodMail, Absent, GoodMessage, HpFilled),
       Body(GoodName, GoodMail, PhoneGood, GoodMessage, HpEmpty),
       SpamBody,
       BadBody,
       Body(Absent, Absent, Absent, Absent, Absent),
       Body(LongName, LongMail, PhoneBad, LongMessage, HpEmpty),
       Body(GoodName, Mail(0, EmailMax + 1, 0, FALSE, TRUE), PhoneEmpty, Text(0, 0, 0), Absent),
       Body(Text(2, 4, 2), Mail(0, 16, 0, TRUE, TRUE), Absent, Text(1, 12, 3), Absent),
       Body(Text(1, 0, 0), GoodMail, Absent, GoodMessage, Absent),
       Body(GoodName, Mail(1, 18, 1, TRUE, FALSE), Absent, GoodMessage, Absent),
       Body(LongName, Mail(0, 3, 0, FALSE, FALSE), PhoneBad, Absent, HpFilled) >>
BlankIdEnv == ProcessEnv("blank", "set", "set", NoId, "production", TRUE)
NoRefreshEnv == ProcessEnv("set", "set", "unset", DanglingId, "development", FALSE)
InitHttp ==
    \/ InitWith({SetEnv(NoId), SetEnv(DanglingId)}, {<<>>}, {EnvFile("rw", <<OtherLine>>, FALSE)})
    \/ InitWith({DevEnv, NoCredsEnv}, {<<TitledSheet>>}, {NoFile})
    \/ InitWith({BlankIdEnv, NoRefreshEnv}, {<<>>, <<TitledSheet>>}, {NoFile})
NextHttp ==
    \/ Receive(1, HttpBodies, TRUE)
    \/ Backend(1, BOOLEAN)
    \/ Files(1)
SpecHttp == InitHttp /\ [][NextHttp]_vars

\* SpecLive: every call of the append path is answered; nothing is assumed
\* about the mail and chat backends
InitLive ==
    InitWith({SetEnv(NoId), SetEnv(DanglingId)}, {<<>>}, {EnvFile("rw", <<OtherLine>>, FALSE)})
NextLive ==
    \/ Receive(1, Bodies, TRUE)
    \/ Backend(1, BOOLEAN)
    \/ Files(1)
AppendPath(r) ==
    \/ \E ok \in BOOLEAN :
          \/ ExchangeA(r, ok) \/ ExchangeB(r, ok) \/ VerifyOverride(r, ok)
          \/ ExchangeC(r, ok) \/ SearchDrive(r, ok) \/ CreateSheet(r, ok)
          \/ WriteHeader(r, ok) \/ AppendLead(r, ok)
    \/ Files(r)
SpecLive == InitLive /\ [][NextLive]_vars /\ WF_vars(AppendPath(1))

\* SpecFair: every outbound call of a request is answered, with success or
\* with failure
Answered(r) == Backend(r, BOOLEAN) \/ Files(r)
SpecFair == InitLive /\ [][NextLive]_vars /\ WF_vars(Answered(1))

\* SpecTwin: one createOrGetSpreadsheet call with an override that is
\* configured, next to the same call with no override, both given the same
\* answers by the backends
TwinFiles ==
    << NoFile, EnvFile("rw", <<OtherLine>>, FALSE), EnvFile("ro", <<OtherLine>>, TRUE),
       EnvFile("rw", <<OtherLine, IdLine(DanglingId)>>, TRUE) >>
StartCogs(env, file) ==
    [View(1) EXCEPT !.env = env, !.envFile = file, !.pc = "tokB", !.ops = <<>>]
TwinRun(answers, id) ==
    /\ twin = NoTwin
    /\ twin' = [failing |-> RunCogs(StartCogs([penv EXCEPT !.SPREADSHEET_ID = id], envFile),
                                   answers),
                unset |-> RunCogs(StartCogs([penv EXCEPT !.SPREADSHEET_ID = NoId], envFile),
                                 answers)]
    /\ UNCHANGED <<penv, cachedSpreadsheetId, drive, recent, envFile, run, arrivals,
                   stats, pc, body, sid, seen, em, sl, ops, row, errlog, resp,
                   rid, form>>
InitTwin ==
    InitWith({SetEnv(NoId), DevEnv},
             {<<>>, <<TitledSheet>>, <<ForeignSheet>>, <<ForeignSheet, TitledSheet>>},
             {TwinFiles[i] : i \in 1..Len(TwinFiles)})
NextTwin ==
    \E c, g, h, s, tb, tc \in BOOLEAN, id \in {1, DanglingId} :
        TwinRun([create |-> c, get |-> g, header |-> h, search |-> s, tokB |-> tb,
                 tokC |-> tc], id)
SpecTwin == InitTwin /\ [][NextTwin]_vars

\* SpecPair: submissions served one after another, each answer kept in the
\* slot of its request, so that two answers can be set side by side
PairBodies == <<GoodBody, Body(GoodName, GoodMail, Absent, GoodMessage, HpFilled), BadBody>>
InitPair ==
    InitWith({SetEnv(NoId), SetEnv(DanglingId)}, {<<>>}, {EnvFile("rw", <<OtherLine>>, FALSE)})
NextPair ==
    \/ \E r \in Reqs : Receive(r, PairBodies, TRUE)
    \/ \E r \in Reqs : Backend(r, BOOLEAN)
    \/ \E r \in Reqs : Files(r)
SpecPair == InitPair /\ [][NextPair]_vars

\* SpecForm: one DemoFormSection in a browser, posting to the server
FormInputs ==
    << Body(Text(1, 4, 1), Mail(0, 16, 0, TRUE, TRUE), PhoneGood, GoodMessage, Absent),
       Body(Text(0, 0, 0), GoodMail, PhoneEmpty, GoodMessage, Absent) >>
InitForm ==
    InitWith({SetEnv(DanglingId), BlankIdEnv}, {<<>>},
             {EnvFile("rw", <<OtherLine>>, FALSE)})
NextForm ==
    \/ ClickSubmit
    \/ \E r \in Reqs : HandleSubmit(r, FormInputs)
    \/ \E r \in Reqs : Arrive(r)
    \/ \E r \in Reqs : Backend(r, {TRUE})
    \/ \E r \in Reqs : Files(r)
    \/ \E r \in Reqs : Settle(r)
    \/ \E r \in Reqs : NetworkError(r)
    \/ TimerFires
    \/ SubmitAnother
SpecForm == InitForm /\ [][NextForm]_vars

\* SpecRace: submissions that overlap, backends that always answer with success
InitRace == InitWith({SetEnv(NoId), SetEnv(DanglingId)}, {<<>>}, {NoFile, EnvFile("rw", <<OtherLine>>, FALSE)})
NextRace ==
    \/ \E r \in Reqs : Receive(r, <<GoodBody>>, FALSE)
    \/ \E r \in Reqs : Backend(r, {TRUE})
    \/ \E r \in Reqs : Files(r)
SpecRace == InitRace /\ [][NextRace]_vars

\* the spreadsheets this system has created
Made == {i \in 1..Len(drive) : drive[i].made}
\* no override was configured by the operator: the variable is unset, or holds
\* the id that saveSpreadsheetIdToEnv wrote for a spreadsheet of this system
NoOperatorOverride == penv.SPREADSHEET_ID = NoId \/ penv.SPREADSHEET_ID \in Made

\* ------------------------------------------------------------------ claims

\* C1: submissions that call createOrGetSpreadsheet together on a fresh
\* process (empty cache, no override, no titled spreadsheet, every backend
\* answering with success) make at most one spreadsheets.create call.
C1_AtMostOneCreate == penv.SPREADSHEET_ID = NoId => stats.create <= 1

\* C2: with no override configured by the operator, all process runs together
\* create at most one spreadsheet, whatever the search and the .env step return.
C2_OneSpreadsheetEver == NoOperatorOverride => Cardinality(Made) <= 1

\* C3: a request with a non-empty _honeypot gets the 200 success response and
\* nothing is called for it, whatever its other fields hold.
C3_SpamSilentlyAccepted ==
    \A r \in Reqs :
        (pc[r] = "done" /\ HoneypotFilled(body[r]))
            => resp[r] = [message |-> "Lead submitted successfully", status |-> 200,
                          success |-> TRUE]
               /\ ops[r] = <<>>
C3_Witness ==
    /\ pc[1] = "done" /\ HoneypotFilled(body[1])
    /\ body[1].name = LongName /\ body[1].message = Absent
    /\ resp[1].status = 200

\* the messages of a body, put together from the left
RECURSIVE Glue(_, _)
Glue(acc, rest) ==
    IF rest = <<>> THEN acc ELSE Glue(acc \o ", " \o Head(rest), Tail(rest))
\* C4: a body that fails the schema gets 400, success false, the message
\* "Validation error: " followed by all field messages joined by ", ", and no
\* call to storage.submitLead.
C4_ValidationRejected ==
    \A r \in Reqs :
        LET issues == SchemaIssues(body[r])
        IN  (pc[r] = "done" /\ ~HoneypotFilled(body[r]) /\ issues # <<>>)
                => /\ resp[r].status = 400
                   /\ resp[r].success = FALSE
                   /\ resp[r].message = Glue("Validation error: " \o Head(issues), Tail(issues))
                   /\ ops[r] = <<>>
C4_Witness ==
    /\ pc[1] = "done"
    /\ body[1] = Body(LongName, LongMail, PhoneBad, LongMessage, HpEmpty)
    /\ resp[1].message = "Validation error: Name is too long, Email is too long, Please enter a valid phone number, Message is too long"

NotificationOps ==
    {"sendEmailNotification", "sendSlackNotification", "gmail-token", "gmail-send",
     "webhook", "gmail-token:fail", "gmail-send:fail", "webhook:fail"}
\* C5: when appendLeadToSheet raises, the response is 500 with success false
\* and neither notification is attempted.
C5_NoNotificationAfterFailure ==
    \A r \in Reqs :
        Called(ops[r], "appendLeadToSheet:throw")
            => /\ resp[r].status = 500
               /\ resp[r].success = FALSE
               /\ \A i \in 1..Len(ops[r]) : ops[r][i] \notin NotificationOps
C5_Witness ==
    /\ pc[1] = "done" /\ Called(ops[1], "append:fail")
    /\ Called(ops[1], "appendLeadToSheet:throw") /\ resp[1].status = 500

\* C6: once the append has succeeded both notifications are attempted and the
\* response is 200 with the rowNumber of the append, whatever they do.
C6_NotificationsAbsorbed ==
    \A r \in Reqs :
        Called(ops[r], "append")
            => /\ Called(ops[r], "sendEmailNotification")
               /\ Called(ops[r], "sendSlackNotification")
               /\ pc[r] \in {"notify", "done"}
               /\ pc[r] = "done" =>
                    resp[r] = [message |-> "Lead submitted successfully",
                               rowNumber |-> row[r], status |-> 200, success |-> TRUE]
C6_Witness ==
    /\ pc[1] = "done" /\ Called(ops[1], "append")
    /\ Called(ops[1], "webhook:fail") /\ Called(ops[1], "gmail-send:fail")
    /\ ~sl[1].success
    /\ resp[1].status = 200

\* C9: when the configured SPREADSHEET_ID passes the remote lookup, the call
\* returns and caches that id and makes no title search and no create.
C9_OverrideWins ==
    \A r \in Reqs :
        Called(ops[r], "get")
            => /\ sid[r] = penv.SPREADSHEET_ID
               /\ pc[r] = "append" => cachedSpreadsheetId = penv.SPREADSHEET_ID
               /\ ~Tried(ops[r], "search")
               /\ ~Tried(ops[r], "create")
C9_Witness ==
    /\ pc[1] = "append" /\ Called(ops[1], "get")
    /\ recent # NoId /\ recent # penv.SPREADSHEET_ID
    /\ cachedSpreadsheetId = 1

\* C7 (as claimed): once the append has succeeded the response is sent, also
\* when a notification backend never answers.
C7_RespondsWithoutWaiting ==
    \A r \in Reqs : Called(ops[r], "append") ~> pc[r] = "done"

\* C8 (as claimed): with no override, the sequential calls of one run make at
\* most one title search and at most one create.
C8_OneSearchOneCreate ==
    penv.SPREADSHEET_ID = NoId => stats.search <= 1 /\ stats.create <= 1
\* C8 (amended): with no override, all calls of one run that return, return
\* the same id; the run makes at most one search and one create more than it
\* has calls that raised; once the cache is filled no call makes a search, a
\* create or a header write.
C8_ResolvedOncePerRun ==
    /\ [](penv.SPREADSHEET_ID = NoId =>
            /\ Cardinality(stats.ret) <= 1
            /\ stats.search <= stats.raised + 1
            /\ stats.create <= stats.raised + 1)
    /\ [][(cachedSpreadsheetId # NoId /\ run' = run) =>
            /\ stats'.search = stats.search
            /\ stats'.create = stats.create
            /\ stats'.header = stats.header]_vars
C8_Witness ==
    /\ penv.SPREADSHEET_ID = NoId /\ arrivals = 3 /\ stats.raised = 1
    /\ stats.search = 2 /\ stats.create = 2
    /\ pc[1] = "append" /\ ops[1] = <<"submitLead", "token", "token">>
    /\ stats.ret = {cachedSpreadsheetId}

\* what the claim compares of a finished call: whether it raised and with what
\* error, the id returned, the cache, the spreadsheets, the .env file, and
\* the calls made apart from the lookup of the override
PathCalls(o) ==
    SelectSeq(o, LAMBDA c : c \notin {"get", "get:fail"})
Outcome(v) ==
    [cache |-> v.cache, drive |-> v.drive, envFile |-> v.envFile, errlog |-> v.errlog,
     ops |-> PathCalls(v.ops), pc |-> v.pc, sid |-> v.sid]
\* C10: a call whose configured override fails the remote lookup ends as the
\* call with no override does: same raise or return, same id, same cache,
\* same spreadsheets and .env file, same calls after the lookup.
C10_FailedOverrideIsNoOverride ==
    (twin # NoTwin /\ Called(twin.failing.ops, "get:fail"))
        => Outcome(twin.failing) = Outcome(twin.unset)
C10_Witness ==
    /\ twin # NoTwin
    /\ Called(twin.failing.ops, "get:fail") /\ Called(twin.failing.ops, "create")
    /\ twin.failing.pc = "append" /\ twin.failing.sid = Len(drive) + 1
    /\ Called(twin.failing.ops, "writeFile") /\ twin.failing.envFile # envFile

\* C11: in production every 500 response carries the one generic body,
\* whatever the error was; the error's own text is not the message of the body
\* and is what was given to console.error.
C11_ProductionErrorsRedacted ==
    \A r \in Reqs :
        (pc[r] = "done" /\ resp[r].status = 500 /\ penv.NODE_ENV = "production")
            => /\ resp[r] = [message |-> "Failed to submit lead. Please try again later.",
                             status |-> 500, success |-> FALSE]
               /\ errlog[r] \notin {"", "ZodError", resp[r].message}
               /\ Called(ops[r], "appendLeadToSheet:throw")
C11_Witness ==
    /\ pc[1] = "done" /\ resp[1].status = 500 /\ penv.NODE_ENV = "production"
    /\ errlog[1] = "Failed to submit lead: Failed to append lead to sheet: Failed to create spreadsheet: The caller does not have permission"
    /\ arrivals = 2 /\ stats.raised = 2

\* C12 (as claimed): the answer to a submission with a filled honeypot has the
\* status and the body fields of the answer to a genuine successful one.
C12_SpamLooksGenuine ==
    \A r, q \in Reqs :
        (pc[r] = "done" /\ HoneypotFilled(body[r])
            /\ pc[q] = "done" /\ Called(ops[q], "append"))
            => /\ resp[r].status = resp[q].status
               /\ DOMAIN resp[r] = DOMAIN resp[q]

\* C13 (as claimed): the rowNumber reported for an append is greater than the
\* rowNumber reported for every earlier append to the same spreadsheet.
C13_RowNumberIncreases ==
    [][\A r, q \in Reqs :
          (row[q] > 0 /\ row[r] = 0 /\ row'[r] > 0 /\ sid'[r] = sid[q])
              => row'[r] > row[q]]_vars

\* validatedData: what leadSubmissionSchema.parse returned for the request
ValidatedData(r) == SchemaParse(body[r])

\* C14 (as claimed): the record that validation returned validates again and
\* comes back unchanged.
C14_SchemaIdempotent ==
    \A r \in Reqs :
        Called(ops[r], "submitLead")
            => /\ SchemaIssues(ValidatedData(r)) = <<>>
               /\ SchemaParse(ValidatedData(r)) = ValidatedData(r)

\* C15 (as claimed): the record handed to storage.submitLead has a trimmed
\* name of 1 to 100 characters, a trimmed message of 1 to 1000 characters, a
\* lower-case trimmed email and no _honeypot field.
C15_AcceptedRecordWellFormed ==
    \A r \in Reqs :
        Called(ops[r], "submitLead")
            => LET d == ValidatedData(r)
               IN  /\ d.name.pre = 0 /\ d.name.post = 0 /\ d.name.body \in 1..100
                   /\ d.message.pre = 0 /\ d.message.post = 0 /\ d.message.body \in 1..1000
                   /\ d.email.pre = 0 /\ d.email.post = 0 /\ ~d.email.upper
                   /\ "_honeypot" \notin DOMAIN d

\* the calls made to the spreadsheet and file-listing backends, in order
SheetCalls(o) ==
    SelectSeq(o, LAMBDA c : c \in {"search", "search:fail", "create", "create:fail",
                                   "header", "header:fail", "append", "append:fail"})
\* the first submission of the first run, no override, and no spreadsheet with
\* the title other than one this submission created
FirstFresh ==
    /\ run = 1 /\ arrivals = 1 /\ penv.SPREADSHEET_ID = NoId
    /\ \A i \in 1..Len(drive) : drive[i].titled => drive[i].made
SearchThenAppend ==
    {<<s, "create", "header", a>> : s \in {"search", "search:fail"},
                                     a \in {"append", "append:fail"}}
\* C16 (as claimed): on that submission the calls are title search, create,
\* header write, append, in this order.
C16_SearchCreateHeaderAppend ==
    \A r \in Reqs :
        (FirstFresh /\ Tried(ops[r], "append")) => SheetCalls(ops[r]) \in SearchThenAppend
\* C16 (amended): the calls are title search, create, header write, append in
\* this order, the search being left out exactly when the token exchange of
\* findExistingSpreadsheet was refused; the append is issued only after the
\* header write succeeded, and the lead is the one row below the header.
C16_HeaderBeforeAppend ==
    \A r \in Reqs :
        (FirstFresh /\ Tried(ops[r], "append"))
            => /\ IF Called(ops[r], "token:fail")
                  THEN SheetCalls(ops[r]) \in {<<"create", "header", "append">>,
                                               <<"create", "header", "append:fail">>}
                  ELSE SheetCalls(ops[r]) \in SearchThenAppend
               /\ drive[sid[r]].header
               /\ Called(ops[r], "append") => drive[sid[r]].leads = 1
C16_Witness ==
    /\ FirstFresh /\ Called(ops[1], "append") /\ Called(ops[1], "token:fail")
    /\ ~Tried(ops[1], "search")
    /\ drive[sid[1]].header /\ drive[sid[1]].leads = 1

\* C17 (as claimed): a failed webhook POST ends sendSlackNotification as a
\* missing SLACK_WEBHOOK_URL does: success is reported to the caller.
C17_SlackFailureReportsSuccess ==
    \A r \in Reqs :
        (sl[r].st = "done" /\ (Called(ops[r], "webhook:fail") \/ ~penv.SLACK_WEBHOOK_URL))
            => sl[r].success
\* C17 (amended): sendSlackNotification never raises, so the submission is
\* answered 200 in both cases; with no SLACK_WEBHOOK_URL it makes no POST and
\* reports success with method console-only; after a failed POST it reports
\* failure with method webhook.
C17_SlackFailureReported ==
    \A r \in Reqs :
        Called(ops[r], "sendSlackNotification")
            => /\ ~penv.SLACK_WEBHOOK_URL =>
                    /\ sl[r] = [method |-> "console-only", st |-> "done", success |-> TRUE]
                    /\ ~Tried(ops[r], "webhook")
               /\ Called(ops[r], "webhook:fail") =>
                    sl[r] = [method |-> "webhook", st |-> "done", success |-> FALSE]
               /\ ~Called(ops[r], "appendLeadToSheet:throw")
               /\ pc[r] = "done" => resp[r].status = 200
C17_Witness ==
    /\ pc[1] = "done" /\ Called(ops[1], "webhook:fail")
    /\ sl[1] = [method |-> "webhook", st |-> "done", success |-> FALSE]
    /\ resp[1].status = 200 /\ resp[1].success

\* C18: when one of the three Google credentials is unset or blank, a valid
\* submission ends with the credential-configuration error and status 500
\* before any remote call: no token exchange, search, create, header write or
\* append, and the cache and the spreadsheets stay as they were.
C18_MissingCredentialsFailFirst ==
    \A r \in Reqs :
        ((\E n \in {"GOOGLE_CLIENT_ID", "GOOGLE_CLIENT_SECRET", "GOOGLE_REFRESH_TOKEN"} :
                penv[n] \in {"unset", "blank"})
            /\ Called(ops[r], "submitLead"))
            => /\ ops[r] = <<"submitLead", "appendLeadToSheet:throw">>
               /\ pc[r] = "done" /\ resp[r].status = 500 /\ ~resp[r].success
               /\ errlog[r] = SubmitError(AppendError(CredentialError(penv)))
               /\ cachedSpreadsheetId = NoId /\ stats = NoStats
               /\ \A i \in 1..Len(drive) : drive[i] = TitledSheet
C18_Witness ==
    /\ penv.GOOGLE_CLIENT_ID = "blank" /\ penv.GOOGLE_REFRESH_TOKEN = "set"
    /\ pc[1] = "done" /\ ops[1] = <<"submitLead", "appendLeadToSheet:throw">>
    /\ resp[1].status = 500
    /\ errlog[1] = "Failed to submit lead: Failed to append lead to sheet: Google Sheets authentication not configured. Missing or empty variables: GOOGLE_CLIENT_ID. Please set GOOGLE_CLIENT_ID, GOOGLE_CLIENT_SECRET, and GOOGLE_REFRESH_TOKEN environment variables in your .env file."

\* C19 (as claimed): the form never has two submissions in flight; while one
\* is in flight the submit button is disabled, and it is enabled again only
\* when the mutation has succeeded or failed.
C19_OneSubmissionInFlight ==
    /\ [](Cardinality(form.sent) <= 1)
    /\ [](form.sent # {} => ButtonDisabled(form))
    /\ [][(ButtonDisabled(form) /\ ~ButtonDisabled(form'))
            => form'.mutation \in {"success", "error"} /\ form'.sent = {}]_vars

\* C20 (as claimed): a createOrGetSpreadsheet call that finds the cache filled
\* returns without a remote call, so it is never waiting for a token exchange.
C20_CachedReturnsWithoutRemoteCall ==
    \A r \in Reqs : cachedSpreadsheetId # NoId => pc[r] # "tokB"

\* C21 (as claimed): createOrGetSpreadsheet raises only from its last step,
\* the create call or the header write.
C21_OnlyCreateStepRaises ==
    [][stats'.raised > stats.raised => \E r \in Reqs : pc[r] \in {"create", "header"}]_vars

\* request r goes on within the process run: a call it awaited is answered
Stepped(r) == run' = run /\ pc'[r] # pc[r]

\* C22: findExistingSpreadsheet never raises: it ends with the id found, or
\* with "not found" after an empty result, a failed search or a refused token
\* exchange, and then createOrGetSpreadsheet goes on to the create call.
C22_SearchFailureFallsBackToCreate ==
    [][\A r \in Reqs :
          (pc[r] \in {"tokC", "search"} /\ Stepped(r))
              => /\ stats'.raised = stats.raised
                 /\ ~Called(ops'[r], "appendLeadToSheet:throw")
                 /\ LET last == ops'[r][Len(ops'[r])]
                    IN  CASE last = "token" -> pc'[r] = "search"
                          [] last \in {"token:fail", "search:fail"} -> pc'[r] = "create"
                          [] last = "search" ->
                               IF recent = NoId THEN pc'[r] = "create"
                               ELSE pc'[r] = "append" /\ sid'[r] = recent
                          [] OTHER -> FALSE]_vars
C22_Witness ==
    /\ pc[1] = "append" /\ Called(ops[1], "search:fail") /\ Called(ops[1], "create")
    /\ arrivals = 2 /\ stats.raised = 0

\* C23 (as claimed): a spreadsheet created by this system holds lead rows only
\* below a header row that was written first.
C23_HeaderBeforeLeads ==
    \A i \in Made : drive[i].leads > 0 => drive[i].header

\* the values.append calls made for a request, and the lead rows of all sheets
AppendTries(o) == SelectSeq(o, LAMBDA c : c \in {"append", "append:fail"})
RECURSIVE LeadRows(_)
LeadRows(d) == IF d = <<>> THEN 0 ELSE Head(d).leads + LeadRows(Tail(d))
\* C24: a validated submission makes at most one values.append call; a 200
\* answer with rowNumber is sent only after that call succeeded; every lead
\* row comes from one successful append of a validated submission, so there
\* are never more lead rows than submissions.
C24_AppendAtMostOnce ==
    /\ [](/\ \A r \in Reqs :
               /\ Len(AppendTries(ops[r])) <= 1
               /\ Tried(ops[r], "append") => Screen(body[r]) = "valid"
               /\ (resp[r].status = 200 /\ "rowNumber" \in DOMAIN resp[r])
                    => AppendTries(ops[r]) = <<"append">>
          /\ LeadRows(drive) <= arrivals)
    /\ [][LeadRows(drive') # LeadRows(drive)
            => /\ LeadRows(drive') = LeadRows(drive) + 1
               /\ \E r \in Reqs : pc[r] = "append" /\ AppendTries(ops'[r]) = <<"append">>]_vars
C24_Witness ==
    /\ pc[1] = "done" /\ resp[1].status = 500 /\ AppendTries(ops[1]) = <<"append:fail">>
    /\ arrivals = 3 /\ LeadRows(drive) = 1

\* C25: once the spreadsheet is created and its header written, the .env step
\* never raises: whether the file is missing, cannot be written or is
\* written, the call returns the new id, the cache holds it and the
\* submission goes on to its append; a file that is missing or not writable
\* stays as it was.
C25_EnvFailureNeverRaised ==
    /\ [](\A r \in Reqs : pc[r] \in {"envRead", "envWrite"}
            => /\ cachedSpreadsheetId = sid[r] /\ sid[r] # NoId
               /\ drive[sid[r]].made /\ drive[sid[r]].header)
    /\ [][\A r \in Reqs :
            (pc[r] \in {"envRead", "envWrite"} /\ Stepped(r))
                => /\ pc'[r] \in {"envWrite", "append"}
                   /\ pc'[r] = "envWrite" => pc[r] = "envRead"
                   /\ sid'[r] = sid[r] /\ cachedSpreadsheetId' = sid[r]
                   /\ stats'.raised = stats.raised
                   /\ pc'[r] = "append" => sid[r] \in stats'.ret
                   /\ envFile.mode # "rw" => envFile' = envFile]_vars
C25_Witness ==
    /\ pc[1] = "append" /\ Called(ops[1], "writeFile")
    /\ envFile.mode = "ro" /\ ~IncludesId(envFile.lines)
    /\ cachedSpreadsheetId = sid[1] /\ drive[sid[1]].made

\* the four ways a request ends
EndsSpam(r) ==
    /\ HoneypotFilled(body[r]) /\ ops[r] = <<>>
    /\ resp[r].status = 200 /\ "rowNumber" \notin DOMAIN resp[r]
EndsInvalid(r) == resp[r].status = 400 /\ ops[r] = <<>> /\ ~HoneypotFilled(body[r])
EndsFailed(r) ==
    /\ resp[r].status = 500 /\ Called(ops[r], "appendLeadToSheet:throw")
    /\ ~Called(ops[r], "append")
EndsNotified(r) ==
    /\ resp[r].status = 200 /\ "rowNumber" \in DOMAIN resp[r]
    /\ Called(ops[r], "append") /\ em[r].st = "done" /\ sl[r].st = "done"
\* C26: when every outbound call is answered, every request is answered; it
\* is answered once, and on exactly one of the paths spam 200, validation
\* 400, append failure 500, appended and notified 200.
C26_EveryRequestAnsweredOnce ==
    /\ \A r \in Reqs : InFlight(pc[r]) ~> pc[r] = "done"
    /\ [](\A r \in Reqs : pc[r] = "done"
            => Cardinality({p \in {"spam", "invalid", "failed", "notified"} :
                    \/ p = "spam" /\ EndsSpam(r)
                    \/ p = "invalid" /\ EndsInvalid(r)
                    \/ p = "failed" /\ EndsFailed(r)
                    \/ p = "notified" /\ EndsNotified(r)}) = 1)
    /\ [](\A r \in Reqs : InFlight(pc[r]) => resp[r] = NoResp)
    /\ [][\A r \in Reqs : resp'[r] # resp[r]
            => \/ pc'[r] = "done" /\ (Idle(r) \/ resp[r] = NoResp)
               \/ resp'[r] = NoResp /\ Idle(r) /\ InFlight(pc'[r])]_vars
C26_Witness ==
    /\ pc[1] = "done" /\ EndsNotified(1) /\ arrivals = 3
    /\ Called(ops[1], "gmail-send:fail") /\ Called(ops[1], "webhook")

\* C27: within a process run the cache is assigned only from empty, and only
\* by a verified override, a search hit, or a header write that succeeded
\* after the create of the same call; a failed create or header write raises
\* and leaves the cache empty, and a call that finds the cache empty starts
\* the resolution over: with the override when one is set, else the search.
C27_CacheAssignedOnlyOnSuccess ==
    /\ [](\A r \in Reqs : pc[r] \in {"verify", "tokC", "search", "create", "header"}
              => cachedSpreadsheetId = NoId)
    /\ [][cachedSpreadsheetId' # cachedSpreadsheetId
            => run' # run \/ \E r \in Reqs : Stepped(r)]_vars
    /\ [][\A r \in Reqs :
            LET answer == ops'[r][Len(ops[r]) + 1]
            IN  /\ (cachedSpreadsheetId' # cachedSpreadsheetId /\ Stepped(r))
                    => /\ cachedSpreadsheetId = NoId
                       /\ pc'[r] = "append" \/ pc'[r] = "envRead"
                       /\ cachedSpreadsheetId' = sid'[r]
                       /\ SheetExists(drive', sid'[r])
                       /\ CASE pc[r] = "verify" ->
                                 answer = "get" /\ sid'[r] = penv.SPREADSHEET_ID
                            [] pc[r] = "search" ->
                                 answer = "search" /\ sid'[r] = recent
                            [] pc[r] = "header" ->
                                 /\ answer = "header" /\ sid'[r] = sid[r]
                                 /\ Called(ops[r], "create")
                                 /\ drive'[sid[r]].header
                            [] OTHER -> FALSE
                /\ (pc[r] \in {"create", "header"} /\ Stepped(r)
                        /\ answer \in {"create:fail", "header:fail"})
                    => /\ stats'.raised = stats.raised + 1
                       /\ Called(ops'[r], "appendLeadToSheet:throw")
                       /\ cachedSpreadsheetId' = NoId
                       /\ pc'[r] = "done" /\ resp'[r].status = 500
                /\ (pc[r] = "tokB" /\ Stepped(r) /\ answer = "token"
                        /\ cachedSpreadsheetId = NoId)
                    => pc'[r] = IF penv.SPREADSHEET_ID # NoId THEN "verify" ELSE "tokC"]_vars
C27_Witness ==
    /\ pc[1] = "verify" /\ cachedSpreadsheetId = NoId
    /\ stats.header = 1 /\ stats.raised = 1 /\ arrivals = 2
    /\ \E i \in Made : ~drive[i].header

\* C28: a call that resolves through the cache, a verified override or a
\* search hit goes straight on to the append; a header write follows a create
\* of the same call and goes to the spreadsheet it made; and a spreadsheet
\* that exists changes only by one lead row more, its header being set only
\* in the call that created it.
C28_ExistingSheetOnlyAppended ==
    /\ [](\A r \in Reqs :
            /\ Tried(ops[r], "header")
                => /\ Called(ops[r], "create") /\ ~Called(ops[r], "get")
                   /\ sid[r] \in Made
            /\ Tried(ops[r], "create") => ~Called(ops[r], "get")
            /\ pc[r] = "header" => sid[r] = Len(drive) /\ Called(ops[r], "create"))
    /\ [][\A r \in Reqs :
            LET answer == ops'[r][Len(ops[r]) + 1]
                resolved == \/ pc[r] = "tokB" /\ answer = "token" /\ cachedSpreadsheetId # NoId
                            \/ pc[r] = "verify" /\ answer = "get"
                            \/ pc[r] = "search" /\ answer = "search" /\ recent # NoId
            IN  (Stepped(r) /\ resolved)
                    => /\ pc'[r] = "append" /\ drive' = drive
                       /\ ~Tried(ops'[r], "create") /\ ~Tried(ops'[r], "header")]_vars
    /\ [][/\ Len(drive') >= Len(drive)
          /\ \A i \in 1..Len(drive) :
               drive'[i] # drive[i]
                   => \/ drive'[i] = [drive[i] EXCEPT !.leads = @ + 1]
                      \/ /\ drive'[i] = [drive[i] EXCEPT !.header = TRUE]
                         /\ \E r \in Reqs :
                              /\ pc[r] = "header" /\ sid[r] = i
                              /\ Called(ops[r], "create") /\ drive[i].made
                              /\ drive[i].leads = 0]_vars
C28_Witness ==
    /\ pc[1] = "done" /\ resp[1].status = 200
    /\ Called(ops[1], "search") /\ Called(ops[1], "append")
    /\ ~Tried(ops[1], "create") /\ ~Tried(ops[1], "header")
    /\ sid[1] \notin Made /\ drive[sid[1]].titled /\ drive[sid[1]].leads = 1

\* C29 (as claimed): the success message is hidden only by the "Send Another
\* Message" button or by the timer of the submission it belongs to. The
\* timers all run 5 seconds, so they fire in the order they were started:
\* the timer that fires is the one of the message on display only when no
\* older timer is pending.
C29_OnlyOwnTimerHides ==
    [][(form.isSuccess /\ ~form'.isSuccess /\ form'.timers < form.timers)
           => form.timers = 1]_vars

\* the SPREADSHEET_ID assignments of a .env file
IdLines(f) == SelectSeq(f.lines, LAMBDA l : l.kind = "id")
\* C30: saveSpreadsheetIdToEnv leaves a .env file that is missing, or that
\* includes SPREADSHEET_ID=, as it is; otherwise the content it writes is the
\* content of the file followed by the comment line and one SPREADSHEET_ID
\* line with the id of the spreadsheet just created. Nothing else changes the
\* file.
C30_EnvFileOnlyExtended ==
    /\ [](\A r \in Reqs : pc[r] = "envWrite"
            => /\ envFile.mode # "missing" /\ ~IncludesId(envFile.lines)
               /\ seen[r] = envFile /\ sid[r] = Len(drive))
    /\ [][envFile' # envFile => \E r \in Reqs : pc[r] = "envWrite" /\ Stepped(r)]_vars
    /\ [][\A r \in Reqs :
            /\ (pc[r] = "envRead" /\ Stepped(r))
                => /\ envFile' = envFile
                   /\ pc'[r] = IF envFile.mode = "missing" \/ IncludesId(envFile.lines)
                               THEN "append" ELSE "envWrite"
            /\ (pc[r] = "envWrite" /\ Stepped(r) /\ envFile.mode = "rw")
                => /\ envFile'.mode = envFile.mode
                   /\ envFile'.lines = envFile.lines \o <<NoteLine, IdLine(sid[r])>>
                   /\ envFile'.nl
                   /\ IdLines(envFile') = <<IdLine(sid[r])>>]_vars
C30_Witness ==
    /\ pc[1] = "append" /\ Called(ops[1], "create") /\ Called(ops[1], "readFile")
    /\ ~Called(ops[1], "writeFile")
    /\ envFile.lines = <<OtherLine, NoteLine, IdLine(1)>> /\ sid[1] = 2

====
